---- MODULE Spec2Model ----
(***************************************************************************)
(* Model of purplebird-turnstile-client.                                   *)
(*                                                                         *)
(*  - the Refresh Controller, setupAutoRefresh of src/src/turnstile-       *)
(*    client.ts: one session on a page with a timer queue (setInterval,    *)
(*    setTimeout), the page events load and beforeunload, the vendor       *)
(*    script that defines window.turnstile and later writes the widget's   *)
(*    data-widget-id attribute;                                            *)
(*  - the Verifier, verifyTurnstile of src/netlify/verify-turnstile.js;    *)
(*  - the Token Extractor, getTurnstileToken of the same file.             *)
(*                                                                         *)
(* Time is in milliseconds.  A timer whose due time is reached fires       *)
(* before time moves on; timers due at the same instant fire in any order, *)
(* and page events interleave with them freely.                           *)
(***************************************************************************)
EXTENDS Integers, Sequences, FiniteSets, TLC

(***************************************************************************)
(* Bounds of the model.                                                    *)
(***************************************************************************)
\* Time stops advancing at MaxTime.
MaxTime == 16000
\* Granularity of the clock.
TickMs == 100
\* At most this many timers are pending at once.
MaxTimers == 7
\* At most this many calls of the teardown function (explicit or by beforeunload).
MaxCleanupCalls == 2

\* The options a session is set up with: the refresh interval and whether
\* the onRefresh and onError callbacks are supplied.
Options == { [refreshInterval |-> 300,  onRefresh |-> TRUE,  onError |-> TRUE],
             [refreshInterval |-> 1000, onRefresh |-> FALSE, onError |-> TRUE],
             [refreshInterval |-> 300,  onRefresh |-> TRUE,  onError |-> FALSE],
             [refreshInterval |-> 1000, onRefresh |-> FALSE, onError |-> FALSE] }
\* The identifiers the vendor script may assign to the widget.
WidgetIds == {"widget-123"}
\* The instants at which the vendor script may define window.turnstile,
\* the load event may fire and the vendor script may write data-widget-id.
ScriptLoadTimes == {200, 5100}
LoadEventTimes == {100, 4700}
WidgetInitTimes == {0, 700, 10000, 10700}
\* The instants at which the teardown function may be called or beforeunload may fire.
TeardownTimes == {0, 300, 5300, 10400}

(***************************************************************************)
(* Program constants.                                                      *)
(***************************************************************************)
WIDGET_INIT_TIMEOUT == 10000
WIDGET_CHECK_INTERVAL == 100
SCRIPT_CHECK_INTERVAL == 100
SCRIPT_CHECK_TIMEOUT == 5000
LOAD_GRACE_DELAY == 500

\* A null timer handle; timer ids start at 1.
NULL == 0
\* getAttribute('data-widget-id') of a widget the vendor script has not initialised.
NoId == ""

VARIABLES
    \* the page
    now,                    \* the clock, ms since setupAutoRefresh
    turnstile,              \* window.turnstile is defined
    widgetIdAttr,           \* the widget's data-widget-id attribute, NoId when absent
    loadFired,              \* the window's load event has fired
    timers,                 \* the pending timers of the page
    nextTimerId,            \* the id the next setInterval/setTimeout returns
    \* the session (the closure of setupAutoRefresh)
    started,                \* setupAutoRefresh has been called
    widget,                 \* the widget argument is an element (FALSE: null)
    refreshInterval,
    onRefresh,              \* options.onRefresh is supplied
    onError,                \* options.onError is supplied
    turnstileResetInterval,
    checkWidgetInterval,
    isCleanedUp,
    loadListener,           \* loadHandler is registered for the load event
    \* what an observer of the session has seen
    resetCalls,             \* number of calls of window.turnstile.reset
    lastFiring,             \* the last firing of a reset timer
    discoveredAt,           \* when a poll first read a widget identifier, -1 before
    tornDownPreActive,      \* teardown ran before any poll read a widget identifier
    setupResetRuns,         \* number of times setupReset got past its guard
    cleanupCalls,           \* number of calls of the teardown function
    cleanupClears,          \* number of clearInterval calls made by the teardown function
    tornDownBy,             \* what ran the teardown first: "call", "beforeunload", "none" before
    lastCleanupAt,          \* when the teardown function was last called, -1 before
    pollStartedAt,          \* when setupReset last started a poll for the identifier, -1 before
    idAppearedAt,           \* when the vendor script wrote data-widget-id, -1 before
    \* one call of verifyTurnstile at a time (the Verifier keeps no state across calls)
    vPc,                    \* "idle", "fetching" (await fetch), "parsing" (await json), "done"
    vToken,                 \* the arguments of the call
    vSecretKey,
    vRemoteIp,
    vRequests,              \* the requests the call has issued, in order
    vResponse,              \* how the remote call went: the status, the outcome of json()
    vResult,                \* what the call resolved to, NoResult before
    vRejected,              \* the call rejected (an exception left verifyTurnstile)
    vPrev,                  \* the call before this one: its arguments, response, result
    vCalls,                 \* number of calls made
    \* ---- the Token Extractor: one call of getTurnstileToken ----
    ePc,                    \* "idle", "multipart" (awaiting busboy), "done"
    eEvent,                 \* the event the call was given
    eResult,                \* what the returned promise settled to
    eBodyReads,             \* number of reads of event.body by the call
    eParser,                \* the parser the call handed the body to
    ePrev                   \* the call before this one: its event and what it settled to

pageVars == <<now, turnstile, widgetIdAttr, loadFired, timers, nextTimerId>>
sessionVars == <<started, widget, refreshInterval, onRefresh, onError,
                 turnstileResetInterval, checkWidgetInterval, isCleanedUp, loadListener>>
observerVars == <<resetCalls, lastFiring, discoveredAt, tornDownPreActive,
                  setupResetRuns, cleanupCalls, cleanupClears, tornDownBy,
                  lastCleanupAt, pollStartedAt, idAppearedAt>>
verifierVars == <<vPc, vToken, vSecretKey, vRemoteIp, vRequests, vResponse,
                  vResult, vRejected, vPrev, vCalls>>
extractorVars == <<ePc, eEvent, eResult, eBodyReads, eParser, ePrev>>
vars == <<pageVars, sessionVars, observerVars, verifierVars, extractorVars>>

\* What an operation of the Refresh Controller leaves alone, what an
\* operation of the Verifier leaves alone, and what one of the Token
\* Extractor leaves alone.
offSession == <<verifierVars, extractorVars>>
offVerifier == <<pageVars, sessionVars, observerVars, extractorVars>>
offExtractor == <<pageVars, sessionVars, observerVars, verifierVars>>

NoFiring == [at |-> -1, timer |-> NULL, id |-> NoId, resetThrew |-> FALSE,
             onRefreshCalled |-> FALSE, onErrorCalled |-> FALSE]

(***************************************************************************)
(* The timer queue.                                                        *)
(***************************************************************************)
\* kind: which callback; period: 0 for a setTimeout; wid: the widgetId a
\* reset callback closes over.
Timer(id, kind, due, period, wid) ==
    [id |-> id, kind |-> kind, due |-> due, period |-> period, wid |-> wid]

clearInterval(ts, handle) == {t \in ts : t.id # handle}

\* An interval timer is queued again one period later.
Rearm(ts, t) == (ts \ {t}) \cup {[t EXCEPT !.due = t.due + t.period]}

(***************************************************************************)
(* The page before setupAutoRefresh is called.  A load event that fired     *)
(* before the call is one that never fires after it, and the vendor script  *)
(* writes data-widget-id only once window.turnstile is defined.             *)
(***************************************************************************)
InitSession(apiLoaded) ==
    /\ now = 0
    /\ turnstile \in apiLoaded
    /\ widgetIdAttr = NoId
    /\ loadFired = FALSE
    /\ timers = {}
    /\ nextTimerId = 1
    /\ started = FALSE
    /\ widget = FALSE
    /\ refreshInterval = 0
    /\ onRefresh = FALSE
    /\ onError = FALSE
    /\ turnstileResetInterval = NULL
    /\ checkWidgetInterval = NULL
    /\ isCleanedUp = FALSE
    /\ loadListener = FALSE
    /\ resetCalls = 0
    /\ lastFiring = NoFiring
    /\ discoveredAt = -1
    /\ tornDownPreActive = FALSE
    /\ setupResetRuns = 0
    /\ cleanupCalls = 0
    /\ cleanupClears = 0
    /\ tornDownBy = "none"
    /\ lastCleanupAt = -1
    /\ pollStartedAt = -1
    /\ idAppearedAt = -1

(***************************************************************************)
(* cleanup, the teardown function.                                         *)
(***************************************************************************)
\* A mutant of cleanupReturnsEarly: the isCleanedUp guard is missing.
cleanupNeverReturnsEarly == FALSE

\* if (isCleanedUp) return;
cleanupReturnsEarly == isCleanedUp

\* The number of clearInterval calls one run of cleanup makes.
ClearsOf(resetHandle, checkHandle) ==
    (IF resetHandle # NULL THEN 1 ELSE 0) + (IF checkHandle # NULL THEN 1 ELSE 0)

cleanup ==
    /\ cleanupCalls' = cleanupCalls + 1
    /\ lastCleanupAt' = now
    /\ IF cleanupReturnsEarly
       THEN UNCHANGED <<timers, turnstileResetInterval, checkWidgetInterval,
                        isCleanedUp, cleanupClears, tornDownPreActive>>
       ELSE /\ isCleanedUp' = TRUE
            /\ timers' = clearInterval(clearInterval(timers, turnstileResetInterval),
                                       checkWidgetInterval)
            /\ turnstileResetInterval' = NULL
            /\ checkWidgetInterval' = NULL
            /\ cleanupClears' =
                   cleanupClears + ClearsOf(turnstileResetInterval, checkWidgetInterval)
            /\ tornDownPreActive' = (tornDownPreActive \/ discoveredAt < 0)
    /\ UNCHANGED <<now, turnstile, widgetIdAttr, loadFired, nextTimerId,
                   started, widget, refreshInterval, onRefresh, onError, loadListener,
                   resetCalls, lastFiring, discoveredAt, setupResetRuns,
                   pollStartedAt, idAppearedAt>>
    /\ UNCHANGED offSession

\* The application calls the function setupAutoRefresh returned.
Teardown ==
    /\ started
    /\ now \in TeardownTimes
    /\ cleanupCalls < MaxCleanupCalls
    /\ cleanup
    /\ tornDownBy' = IF tornDownBy = "none" THEN "call" ELSE tornDownBy

\* window.addEventListener('beforeunload', cleanup): the page announces an
\* unload (which the user may still cancel, so the page can live on).
BeforeUnload ==
    /\ started
    /\ now \in TeardownTimes
    /\ cleanupCalls < MaxCleanupCalls
    /\ cleanup
    /\ tornDownBy' = IF tornDownBy = "none" THEN "beforeunload" ELSE tornDownBy

(***************************************************************************)
(* setupReset: start the poll for the widget identifier.                   *)
(***************************************************************************)
\* The timers setupReset adds to the queue ts at time t, from timer id n on.
SetupResetTimers(ts, n, t) ==
    ts \cup { Timer(n, "checkWidget", t + WIDGET_CHECK_INTERVAL, WIDGET_CHECK_INTERVAL, NoId),
              Timer(n + 1, "initTimeout", t + WIDGET_INIT_TIMEOUT, 0, NoId) }

\* setupReset called for widget w with the queue ts.
setupReset(w, ts) ==
    IF ~w \/ ~turnstile
    THEN /\ timers' = ts
         /\ UNCHANGED <<checkWidgetInterval, nextTimerId, setupResetRuns, pollStartedAt>>
    ELSE /\ timers' = SetupResetTimers(ts, nextTimerId, now)
         /\ checkWidgetInterval' = nextTimerId
         /\ nextTimerId' = nextTimerId + 2
         /\ setupResetRuns' = setupResetRuns + 1
         /\ pollStartedAt' = now

(***************************************************************************)
(* setupAutoRefresh(widget, {refreshInterval, onRefresh, onError}).        *)
(***************************************************************************)
\* The timers the script wait adds: checkScript and its 5 s timeout.
ScriptWaitTimers(n, t) ==
    { Timer(n, "checkScript", t + SCRIPT_CHECK_INTERVAL, SCRIPT_CHECK_INTERVAL, NoId),
      Timer(n + 1, "scriptTimeout", t + SCRIPT_CHECK_TIMEOUT, 0, NoId) }

setupAutoRefresh(w, r, hasOnRefresh, hasOnError) ==
    /\ ~started
    /\ started' = TRUE
    /\ widget' = w
    /\ refreshInterval' = r
    /\ onRefresh' = hasOnRefresh
    /\ onError' = hasOnError
    /\ IF turnstile
       THEN /\ setupReset(w, timers)
            /\ UNCHANGED loadListener
       ELSE /\ loadListener' = TRUE
            /\ timers' = timers \cup ScriptWaitTimers(nextTimerId, now)
            /\ nextTimerId' = nextTimerId + 2
            /\ UNCHANGED <<checkWidgetInterval, setupResetRuns, pollStartedAt>>
    /\ UNCHANGED <<now, turnstile, widgetIdAttr, loadFired,
                   turnstileResetInterval, isCleanedUp,
                   resetCalls, lastFiring, discoveredAt, tornDownPreActive,
                   cleanupCalls, cleanupClears, tornDownBy, lastCleanupAt, idAppearedAt>>
    /\ UNCHANGED offSession

Setup ==
    \E w \in BOOLEAN, o \in Options :
        setupAutoRefresh(w, o.refreshInterval, o.onRefresh, o.onError)

(***************************************************************************)
(* The page: the vendor script and the load event.                        *)
(***************************************************************************)
\* The vendor script has loaded: window.turnstile is defined from now on.
ScriptLoads ==
    /\ started
    /\ ~turnstile
    /\ now \in ScriptLoadTimes
    /\ turnstile' = TRUE
    /\ UNCHANGED <<now, widgetIdAttr, loadFired, timers, nextTimerId,
                   sessionVars, resetCalls, lastFiring, discoveredAt, tornDownPreActive,
                   setupResetRuns, cleanupCalls, cleanupClears, tornDownBy,
                   lastCleanupAt, pollStartedAt, idAppearedAt>>
    /\ UNCHANGED offSession

\* The vendor script has rendered the widget and written its data-widget-id.
WidgetInit ==
    /\ started
    /\ turnstile
    /\ widgetIdAttr = NoId
    /\ now \in WidgetInitTimes
    /\ \E id \in WidgetIds : widgetIdAttr' = id
    /\ idAppearedAt' = now
    /\ UNCHANGED <<now, turnstile, loadFired, timers, nextTimerId,
                   sessionVars, resetCalls, lastFiring, discoveredAt, tornDownPreActive,
                   setupResetRuns, cleanupCalls, cleanupClears, tornDownBy,
                   lastCleanupAt, pollStartedAt>>
    /\ UNCHANGED offSession

\* loadHandler: setTimeout(setupReset, 500).
loadHandler ==
    /\ timers' = timers \cup {Timer(nextTimerId, "loadGrace", now + LOAD_GRACE_DELAY, 0, NoId)}
    /\ nextTimerId' = nextTimerId + 1

\* The window's load event fires (once).
LoadEvent ==
    /\ started
    /\ ~loadFired
    /\ now \in LoadEventTimes
    /\ loadFired' = TRUE
    /\ IF loadListener THEN loadHandler ELSE UNCHANGED <<timers, nextTimerId>>
    /\ UNCHANGED <<now, turnstile, widgetIdAttr,
                   sessionVars, resetCalls, lastFiring, discoveredAt, tornDownPreActive,
                   setupResetRuns, cleanupCalls, cleanupClears, tornDownBy,
                   lastCleanupAt, pollStartedAt, idAppearedAt>>
    /\ UNCHANGED offSession

(***************************************************************************)
(* The timer callbacks of the script wait.                                 *)
(***************************************************************************)
\* checkScript: if (window.turnstile) { clearInterval(checkScript); setupReset(); }
checkScript(t) ==
    /\ t.kind = "checkScript"
    /\ IF turnstile
       THEN setupReset(widget, timers \ {t})
       ELSE /\ timers' = Rearm(timers, t)
            /\ UNCHANGED <<checkWidgetInterval, nextTimerId, setupResetRuns, pollStartedAt>>
    /\ UNCHANGED <<now, turnstile, widgetIdAttr, loadFired,
                   started, widget, refreshInterval, onRefresh, onError,
                   turnstileResetInterval, isCleanedUp, loadListener,
                   resetCalls, lastFiring, discoveredAt, tornDownPreActive,
                   cleanupCalls, cleanupClears, tornDownBy, lastCleanupAt, idAppearedAt>>
    /\ UNCHANGED offSession

\* A mutant of scriptTimeout: the timeout leaves the poll for the script alone.
scriptTimeoutLeavesPoll(t) ==
    /\ t.kind = "scriptTimeout"
    /\ timers' = timers \ {t}
    /\ UNCHANGED <<now, turnstile, widgetIdAttr, loadFired, nextTimerId,
                   sessionVars, resetCalls, lastFiring, discoveredAt, tornDownPreActive,
                   setupResetRuns, cleanupCalls, cleanupClears, tornDownBy,
                   lastCleanupAt, pollStartedAt, idAppearedAt>>
    /\ UNCHANGED offSession

\* setTimeout(() => clearInterval(checkScript), 5000)
scriptTimeout(t) ==
    /\ t.kind = "scriptTimeout"
    /\ timers' = {u \in timers \ {t} : u.kind # "checkScript"}
    /\ UNCHANGED <<now, turnstile, widgetIdAttr, loadFired, nextTimerId,
                   sessionVars, resetCalls, lastFiring, discoveredAt, tornDownPreActive,
                   setupResetRuns, cleanupCalls, cleanupClears, tornDownBy,
                   lastCleanupAt, pollStartedAt, idAppearedAt>>
    /\ UNCHANGED offSession

\* The grace delay after load is over: setupReset().
loadGrace(t) ==
    /\ t.kind = "loadGrace"
    /\ setupReset(widget, timers \ {t})
    /\ UNCHANGED <<now, turnstile, widgetIdAttr, loadFired,
                   started, widget, refreshInterval, onRefresh, onError,
                   turnstileResetInterval, isCleanedUp, loadListener,
                   resetCalls, lastFiring, discoveredAt, tornDownPreActive,
                   cleanupCalls, cleanupClears, tornDownBy, lastCleanupAt, idAppearedAt>>
    /\ UNCHANGED offSession

(***************************************************************************)
(* The timer callbacks of setupReset.                                      *)
(***************************************************************************)
\* The poll for data-widget-id.  It clears the timer checkWidgetInterval
\* names, which is this very timer only while no later setupReset has
\* overwritten the handle and no teardown has nulled it.
checkWidget(t) ==
    /\ t.kind = "checkWidget"
    /\ IF widgetIdAttr # NoId
       THEN /\ Cardinality(timers) < MaxTimers
            /\ timers' = clearInterval(Rearm(timers, t), checkWidgetInterval)
                           \cup {Timer(nextTimerId, "reset", now + refreshInterval,
                                       refreshInterval, widgetIdAttr)}
            /\ checkWidgetInterval' = NULL
            /\ turnstileResetInterval' = nextTimerId
            /\ nextTimerId' = nextTimerId + 1
            /\ discoveredAt' = IF discoveredAt < 0 THEN now ELSE discoveredAt
       ELSE /\ timers' = Rearm(timers, t)
            /\ UNCHANGED <<checkWidgetInterval, turnstileResetInterval, nextTimerId,
                           discoveredAt>>
    /\ UNCHANGED <<now, turnstile, widgetIdAttr, loadFired,
                   started, widget, refreshInterval, onRefresh, onError,
                   isCleanedUp, loadListener,
                   resetCalls, lastFiring, tornDownPreActive,
                   setupResetRuns, cleanupCalls, cleanupClears, tornDownBy,
                   lastCleanupAt, pollStartedAt, idAppearedAt>>
    /\ UNCHANGED offSession

\* Stop checking after WIDGET_INIT_TIMEOUT: clears the timer checkWidgetInterval names.
initTimeout(t) ==
    /\ t.kind = "initTimeout"
    /\ timers' = clearInterval(timers \ {t}, checkWidgetInterval)
    /\ checkWidgetInterval' = NULL
    /\ UNCHANGED <<now, turnstile, widgetIdAttr, loadFired, nextTimerId,
                   started, widget, refreshInterval, onRefresh, onError,
                   turnstileResetInterval, isCleanedUp, loadListener,
                   resetCalls, lastFiring, discoveredAt, tornDownPreActive,
                   setupResetRuns, cleanupCalls, cleanupClears, tornDownBy,
                   lastCleanupAt, pollStartedAt, idAppearedAt>>
    /\ UNCHANGED offSession

\* try { reset(widgetId); onRefresh?.(); }: onRefresh runs when reset returned.
OnRefreshInvoked(resetThrew) == onRefresh /\ ~resetThrew

\* catch (error) { ...; onError?.(err); }: the try block holds the reset call
\* and the onRefresh call, so either one's exception gets here.
OnErrorInvoked(resetThrew, onRefreshThrew) ==
    onError /\ (resetThrew \/ (OnRefreshInvoked(resetThrew) /\ onRefreshThrew))

\* A mutant of TimersAfterReset: a reset that throws ends the interval.
TimersAfterResetStopOnThrow(t, threw) == IF threw THEN timers \ {t} ELSE Rearm(timers, t)

\* The queue after a firing of the reset interval t: nothing clears it, and an
\* exception leaving a callback does not cancel a setInterval.
TimersAfterReset(t, threw) == Rearm(timers, t)

\* One firing of the recurring reset timer.
resetTick(t) ==
    /\ t.kind = "reset"
    /\ \E resetThrew \in BOOLEAN, onRefreshThrew \in BOOLEAN :
         /\ onRefreshThrew => OnRefreshInvoked(resetThrew)
         /\ lastFiring' = [at |-> now, timer |-> t.id, id |-> t.wid,
                           resetThrew |-> resetThrew,
                           onRefreshCalled |-> OnRefreshInvoked(resetThrew),
                           onErrorCalled |-> OnErrorInvoked(resetThrew, onRefreshThrew)]
         /\ timers' = TimersAfterReset(t, resetThrew \/ onRefreshThrew)
    /\ resetCalls' = resetCalls + 1
    /\ UNCHANGED <<now, turnstile, widgetIdAttr, loadFired, nextTimerId,
                   sessionVars, discoveredAt, tornDownPreActive,
                   setupResetRuns, cleanupCalls, cleanupClears, tornDownBy,
                   lastCleanupAt, pollStartedAt, idAppearedAt>>
    /\ UNCHANGED offSession

(***************************************************************************)
(* The event loop.                                                         *)
(***************************************************************************)
\* A due timer fires: one action per callback.
FireCheckScript == \E t \in timers : t.due <= now /\ checkScript(t)
FireScriptTimeout == \E t \in timers : t.due <= now /\ scriptTimeout(t)
FireLoadGrace == \E t \in timers : t.due <= now /\ loadGrace(t)
FireCheckWidget == \E t \in timers : t.due <= now /\ checkWidget(t)
FireInitTimeout == \E t \in timers : t.due <= now /\ initTimeout(t)
FireReset == \E t \in timers : t.due <= now /\ resetTick(t)

\* Time passes, up to the next due time.
Tick ==
    /\ started
    /\ now < MaxTime
    /\ \A t \in timers : t.due > now
    /\ now' = IF \E t \in timers : t.due < now + TickMs
              THEN CHOOSE d \in {t.due : t \in timers} : \A u \in timers : d <= u.due
              ELSE now + TickMs
    /\ UNCHANGED <<turnstile, widgetIdAttr, loadFired, timers, nextTimerId,
                   sessionVars, resetCalls, lastFiring, discoveredAt, tornDownPreActive,
                   setupResetRuns, cleanupCalls, cleanupClears, tornDownBy,
                   lastCleanupAt, pollStartedAt, idAppearedAt>>
    /\ UNCHANGED offSession

(***************************************************************************)
(* The Verifier: verifyTurnstile(token, secretKey, remoteIp = null).       *)
(***************************************************************************)
\* At most this many calls of verifyTurnstile.
MaxCalls == 2

\* JavaScript values: undefined, null and strings.
JsUndefined == [t |-> "undefined", v |-> ""]
JsNull == [t |-> "null", v |-> ""]
Str(x) == [t |-> "string", v |-> x]
Truthy(x) == x.t = "string" /\ x.v # ""

\* The arguments the callers pass.
Tokens == {JsUndefined, JsNull, Str(""), Str("tok-1")}
SecretKeys == {JsUndefined, Str(""), Str("secret-1"), Str("secret-2")}
RemoteIps == {JsUndefined, JsNull, Str(""), Str("203.0.113.7")}

\* What the remote service may answer: the HTTP status of the response, and
\* the outcome of response.json(): a rejection ("malformed") or a value.
Statuses == {200, 400, 500}
\* An object carries success (or not) and 'error-codes' (or not).
Object(hasSuccess, success, hasCodes, codes) ==
    [kind |-> "object", hasSuccess |-> hasSuccess, success |-> success,
     hasCodes |-> hasCodes, codes |-> codes]
Bodies == { [kind |-> "malformed"],
            [kind |-> "null"],
            Object(FALSE, FALSE, FALSE, <<>>),
            Object(TRUE, TRUE, FALSE, <<>>),
            Object(TRUE, FALSE, FALSE, <<>>),
            Object(TRUE, FALSE, TRUE, <<>>),
            Object(TRUE, FALSE, TRUE, <<"invalid-input-response">>),
            Object(TRUE, FALSE, TRUE,
                   <<"invalid-input-response", "timeout-or-duplicate">>) }

SITEVERIFY_URL == "https://challenges.cloudflare.com/turnstile/v0/siteverify"

\* The remote call as the Verifier saw it.
NoResponse == [kind |-> "none"]
Rejected == [kind |-> "rejected"]
Response(status, body) == [kind |-> "response", status |-> status, body |-> body]
NoBody == [kind |-> "unread"]

\* The results of the contract.
NoResult == [pending |-> TRUE]
NotConfigured == [success |-> FALSE, error |-> "Turnstile verification is not configured"]
TokenMissing == [success |-> FALSE, error |-> "Turnstile token is missing"]
VerificationFailed ==
    [success |-> FALSE, error |-> "Security verification failed. Please try again."]
VerificationError ==
    [success |-> FALSE, error |-> "Security verification error. Please try again."]
Verified == [success |-> TRUE]

\* remoteIp = null: the default applies to an omitted (undefined) argument.
DefaultRemoteIp(remoteIp) == IF remoteIp = JsUndefined THEN JsNull ELSE remoteIp

\* A mutant of ShortCircuit: the token is checked before the secret key.
ShortCircuitTokenFirst(token, secretKey) ==
    IF ~Truthy(token) THEN TokenMissing
    ELSE IF ~Truthy(secretKey) THEN NotConfigured
    ELSE NoResult

\* A mutant of ShortCircuit: the result for a missing token has no message.
ShortCircuitNoMessage(token, secretKey) ==
    IF ~Truthy(secretKey) THEN NotConfigured
    ELSE IF ~Truthy(token) THEN [success |-> FALSE]
    ELSE NoResult

\* if (!secretKey) return ...; if (!token) return ...; NoResult: go on.
ShortCircuit(token, secretKey) ==
    IF ~Truthy(secretKey) THEN NotConfigured
    ELSE IF ~Truthy(token) THEN TokenMissing
    ELSE NoResult

\* A mutant of FormData: remoteip is appended whether or not an ip was given.
FormDataAlwaysRemoteIp(token, secretKey, remoteIp) ==
    << <<"secret", secretKey.v>>, <<"response", token.v>>, <<"remoteip", remoteIp.v>> >>

\* The URLSearchParams the call builds: its name/value pairs in append order.
FormData(token, secretKey, remoteIp) ==
    << <<"secret", secretKey.v>>, <<"response", token.v>> >>
      \o (IF Truthy(remoteIp) THEN << <<"remoteip", remoteIp.v>> >> ELSE <<>>)

\* A mutant of Fetch: the request is issued a second time.
FetchTwice(requests, formData) ==
    LET req == [url |-> SITEVERIFY_URL, method |-> "POST", body |-> formData,
                contentType |-> "application/x-www-form-urlencoded"]
    IN  Append(Append(requests, req), req)

\* fetch(url, {method: 'POST', body: formData, headers: {...}}).
Fetch(requests, formData) ==
    Append(requests, [url |-> SITEVERIFY_URL, method |-> "POST", body |-> formData,
                      contentType |-> "application/x-www-form-urlencoded"])

\* URLSearchParams.has and .get on a list of pairs.
Has(body, name) == \E i \in 1..Len(body) : body[i][1] = name
Get(body, name) ==
    LET i == CHOOSE k \in 1..Len(body) :
                 body[k][1] = name /\ \A m \in 1..(k - 1) : body[m][1] # name
    IN  body[i][2]

\* A finished call as its caller saw it, kept to compare two calls.
NoCall == [token |-> JsUndefined, secretKey |-> JsUndefined,
           response |-> NoResponse, result |-> NoResult, rejected |-> FALSE]
CallRecord == [token |-> vToken, secretKey |-> vSecretKey,
               response |-> vResponse, result |-> vResult, rejected |-> vRejected]

VerifierIdle ==
    /\ vPc = "idle"
    /\ vToken = JsUndefined
    /\ vSecretKey = JsUndefined
    /\ vRemoteIp = JsUndefined
    /\ vRequests = <<>>
    /\ vResponse = NoResponse
    /\ vResult = NoResult
    /\ vRejected = FALSE
    /\ vPrev = NoCall
    /\ vCalls = 0

\* The call, up to its first await.
verifyTurnstile(token, secretKey, remoteIp) ==
    /\ vPc \in {"idle", "done"}
    /\ vCalls < MaxCalls
    /\ vCalls' = vCalls + 1
    /\ vToken' = token
    /\ vSecretKey' = secretKey
    /\ vRemoteIp' = remoteIp
    /\ vRejected' = FALSE
    /\ vResponse' = NoResponse
    /\ vPrev' = IF vPc = "done" THEN CallRecord ELSE vPrev
    /\ IF ShortCircuit(token, secretKey) # NoResult
       THEN /\ vResult' = ShortCircuit(token, secretKey)
            /\ vRequests' = <<>>
            /\ vPc' = "done"
       ELSE /\ vResult' = NoResult
            /\ vRequests' = Fetch(<<>>, FormData(token, secretKey, DefaultRemoteIp(remoteIp)))
            /\ vPc' = "fetching"
    /\ UNCHANGED offVerifier

VerifyCall ==
    \E token \in Tokens, secretKey \in SecretKeys, remoteIp \in RemoteIps :
        verifyTurnstile(token, secretKey, remoteIp)

\* A mutant of Catch: the exception leaves verifyTurnstile.
CatchRethrows == [result |-> NoResult, rejected |-> TRUE]

\* catch (error) { console.error(...); return {...}; }: the call resolves.
Catch == [result |-> VerificationError, rejected |-> FALSE]

\* fetch rejects (a network failure): catch.
FetchRejects ==
    /\ vPc = "fetching"
    /\ vResponse' = Rejected
    /\ vResult' = Catch.result
    /\ vRejected' = Catch.rejected
    /\ vPc' = "done"
    /\ UNCHANGED <<vToken, vSecretKey, vRemoteIp, vRequests, vPrev, vCalls>>
    /\ UNCHANGED offVerifier

\* response.ok: the status is in the range 200-299.
ResponseOk(status) == status >= 200 /\ status <= 299

\* A mutant of ResultOfStatus: the result tells the status of the response.
ResultOfStatusLeaks(status) ==
    IF ResponseOk(status) THEN NoResult
    ELSE IF status >= 500 THEN [success |-> FALSE, error |-> "Verification service unavailable"]
    ELSE VerificationFailed

\* if (!response.ok) { console.error(...); return {...}; }  NoResult: go on.
ResultOfStatus(status) ==
    IF ResponseOk(status) THEN NoResult ELSE VerificationFailed

\* fetch resolves with a response: if (!response.ok) return ...; else await response.json().
FetchResolves ==
    /\ vPc = "fetching"
    /\ \E status \in Statuses :
         /\ vResponse' = Response(status, NoBody)
         /\ vResult' = ResultOfStatus(status)
         /\ vPc' = IF ResultOfStatus(status) # NoResult THEN "done" ELSE "parsing"
    /\ vRejected' = FALSE
    /\ UNCHANGED <<vToken, vSecretKey, vRemoteIp, vRequests, vPrev, vCalls>>
    /\ UNCHANGED offVerifier

\* What the call resolves to once response.json() has settled with `data`.  A
\* rejection and the TypeError of reading .success of null end in catch.
Throws(data) == data.kind = "malformed" \/ data.kind = "null"

\* A mutant of ResultOfBody: the error of a refused token names the error codes.
ResultOfBodyWithCodes(data) ==
    IF Throws(data) THEN Catch.result
    ELSE IF ~(data.hasSuccess /\ data.success)
         THEN IF data.hasCodes /\ data.codes # <<>>
              THEN [success |-> FALSE, error |-> data.codes[1]]
              ELSE VerificationFailed
    ELSE Verified

\* A mutant of ResultOfBody: the result of a verified token has an error key.
ResultOfBodyErrorKey(data) ==
    IF Throws(data) THEN Catch.result
    ELSE IF ~(data.hasSuccess /\ data.success) THEN VerificationFailed
    ELSE [success |-> TRUE, error |-> ""]

ResultOfBody(data) ==
    IF Throws(data) THEN Catch.result
    ELSE IF ~(data.hasSuccess /\ data.success) THEN VerificationFailed
    ELSE Verified

JsonSettles ==
    /\ vPc = "parsing"
    /\ \E data \in Bodies :
         /\ vResponse' = Response(vResponse.status, data)
         /\ vResult' = ResultOfBody(data)
         /\ vRejected' = (Throws(data) /\ Catch.rejected)
    /\ vPc' = "done"
    /\ UNCHANGED <<vToken, vSecretKey, vRemoteIp, vRequests, vPrev, vCalls>>
    /\ UNCHANGED offVerifier

(***************************************************************************)
(* The Token Extractor: getTurnstileToken(event).                          *)
(***************************************************************************)
\* At most this many fields in a form, URL-encoded or multipart.
MaxFields == 2

\* The field names and values of the bodies, and the values of the token
\* header.
TOKEN_FIELD == "cf-turnstile-response"
TOKEN_FIELD_CAMEL == "cfTurnstileResponse"
FieldValues == {"", "tok-a", "tok-b"}
Fields == ({TOKEN_FIELD} \X FieldValues) \cup {<<TOKEN_FIELD_CAMEL, "tok-b">>, <<"other", "x">>}
FieldLists == UNION {[1..n -> Fields] : n \in 0..MaxFields}
NonEmptyFieldLists == FieldLists \ {<<>>}

\* What a body spells.  A document is the empty text, a URL-encoded form (its
\* pairs in order), a JSON text (the value it denotes), a multipart form
\* (its boundary and its fields in order), or text that is none of these.
EmptyDoc == [syntax |-> "empty"]
Garbage == [syntax |-> "garbage"]
FormDoc(fields) == [syntax |-> "form", fields |-> fields]
JsonDoc(value) == [syntax |-> "json", value |-> value]
MultipartDoc(boundary, fields) ==
    [syntax |-> "multipart", boundary |-> boundary, fields |-> fields]

\* JSON values: an object of string members, null, a string.
JsonObject(members) == [kind |-> "object", members |-> members]
JsonNull == [kind |-> "null"]
JsonString == [kind |-> "string"]
JsonObjects ==
    {JsonObject(m) : m \in UNION {[names -> FieldValues] :
                          names \in SUBSET {TOKEN_FIELD, TOKEN_FIELD_CAMEL, "other"}}}

Docs ==
    {Garbage}
      \cup {FormDoc(f) : f \in NonEmptyFieldLists}
      \cup {JsonDoc(v) : v \in JsonObjects \cup {JsonNull, JsonString}}
      \cup {MultipartDoc("b1", f) : f \in FieldLists}
      \cup {MultipartDoc("b2", <<>>)}

\* event.body: absent, or a string: the text of a document, or the base64
\* encoding of the UTF-8 bytes of that text.
NoEventBody == [t |-> "undefined"]
Text(doc) == [t |-> "string", enc |-> "utf8", doc |-> doc]
Base64(doc) == [t |-> "string", enc |-> "base64", doc |-> doc]
EventBodies ==
    {NoEventBody, Text(EmptyDoc)}
      \cup {Text(d) : d \in Docs} \cup {Base64(d) : d \in Docs}

\* The content types of the requests, and which of them contain which of the
\* strings the code looks for (String.prototype.includes, case-sensitive).
ContentTypes ==
    {"multipart/form-data; boundary=b1", "multipart/form-data",
     "application/x-www-form-urlencoded", "application/json",
     "application/json; charset=utf-8", "Application/JSON", "text/plain"}
includes(string, searchString) ==
    <<string, searchString>> \in
        { <<"multipart/form-data; boundary=b1", "multipart/form-data">>,
          <<"multipart/form-data", "multipart/form-data">>,
          <<"application/x-www-form-urlencoded", "application/x-www-form-urlencoded">>,
          <<"application/json", "application/json">>,
          <<"application/json; charset=utf-8", "application/json">> }

\* event.headers: absent, or an object from header names to values.
EmptyObject == [n \in {} |-> ""]
TokenHeaders ==
    { EmptyObject,
      [n \in {"x-turnstile-token"} |-> "hdr-1"],
      [n \in {"X-Turnstile-Token"} |-> "hdr-1"],
      [n \in {"X-TURNSTILE-TOKEN"} |-> "hdr-1"],
      [n \in {"x-turnstile-token"} |-> ""],
      [n \in {"x-turnstile-token", "X-Turnstile-Token"} |->
           IF n = "x-turnstile-token" THEN "hdr-1" ELSE "hdr-2"],
      [n \in {"x-turnstile-token", "X-Turnstile-Token"} |->
           IF n = "x-turnstile-token" THEN "" ELSE "hdr-2"] }
ContentTypeHeaders ==
    {EmptyObject}
      \cup {[n \in {"content-type"} |-> c] : c \in ContentTypes}
      \cup {[n \in {"Content-Type"} |-> c] :
                c \in {"application/json", "multipart/form-data; boundary=b1"}}
      \cup {[n \in {"CONTENT-TYPE"} |-> "application/json"]}
      \cup {[n \in {"content-type", "Content-Type"} |->
                 IF n = "content-type" THEN "application/json"
                 ELSE "application/x-www-form-urlencoded"]}
Merge(f, g) == [n \in (DOMAIN f) \cup (DOMAIN g) |-> IF n \in DOMAIN f THEN f[n] ELSE g[n]]
Headers == {Merge(t, c) : t \in TokenHeaders, c \in ContentTypeHeaders}

Event(hasHeaders, headers, body, isBase64Encoded) ==
    [hasHeaders |-> hasHeaders, headers |-> headers, body |-> body,
     isBase64Encoded |-> isBase64Encoded]
\* An event has headers, or none at all.
WellFormed(event) == event.hasHeaders \/ event.headers = EmptyObject

\* What the promise returned by a call has settled to.
Pending == [kind |-> "pending"]
Resolved(value) == [kind |-> "resolved", value |-> value]
RejectedWith(error) == [kind |-> "rejected", error |-> error]

\* obj[name], and a || b.
Lookup(obj, name) == IF name \in DOMAIN obj THEN Str(obj[name]) ELSE JsUndefined
Or(a, b) == IF Truthy(a) THEN a ELSE b

\* A mutant of headerToken: only the lower-case header name is read.
headerTokenLowerOnly(event) ==
    LET headers == IF event.hasHeaders THEN event.headers ELSE EmptyObject
    IN  Lookup(headers, "x-turnstile-token")

\* const headers = event.headers || {};
\* headers['x-turnstile-token'] || headers['X-Turnstile-Token']
headerToken(event) ==
    LET headers == IF event.hasHeaders THEN event.headers ELSE EmptyObject
    IN  Or(Lookup(headers, "x-turnstile-token"), Lookup(headers, "X-Turnstile-Token"))

\* event.headers['content-type'] || event.headers['Content-Type'] || ''
\* (of an event that has headers: the read of an absent object throws).
contentType(event) ==
    Or(Or(Lookup(event.headers, "content-type"), Lookup(event.headers, "Content-Type")),
       Str(""))

\* !event.body: the body is absent or the empty string.
NoBodyGiven(event) == event.body.t = "undefined" \/ event.body.doc = EmptyDoc

\* Buffer.from(string, encoding): the document the bytes spell.  Text read as
\* base64, and base64 read as text, spell nothing.
BufferFrom(string, encoding) == IF string.enc = encoding THEN string.doc ELSE Garbage

\* getBodyBuffer(event) and getTextBody(event).
getBodyBuffer(event) ==
    IF NoBodyGiven(event) THEN EmptyDoc
    ELSE IF event.isBase64Encoded THEN BufferFrom(event.body, "base64")
    ELSE BufferFrom(event.body, "utf8")

\* A mutant of getTextBody: the base64 flag is not looked at.
getTextBodyIgnoresFlag(event) ==
    IF NoBodyGiven(event) THEN EmptyDoc ELSE BufferFrom(event.body, "utf8")

getTextBody(event) ==
    IF NoBodyGiven(event) THEN EmptyDoc
    ELSE IF event.isBase64Encoded THEN BufferFrom(event.body, "base64")
    ELSE BufferFrom(event.body, "utf8")

\* new URLSearchParams(body): the pairs of a form; text that is not a form
\* gives pairs under names it happens to spell.
URLSearchParams(body) ==
    IF body.syntax = "form" THEN body.fields
    ELSE IF body.syntax = "empty" THEN <<>>
    ELSE << <<"(unparsed)", "">> >>

\* A mutant of paramsGet: the value of the last pair of that name.
paramsGetLast(params, name) ==
    IF ~Has(params, name) THEN JsNull
    ELSE Str(params[CHOOSE k \in 1..Len(params) :
                 params[k][1] = name /\ \A m \in (k + 1)..Len(params) : params[m][1] # name][2])

\* params.get(name): the value of the first pair of that name, or null.
paramsGet(params, name) ==
    IF Has(params, name) THEN Str(Get(params, name)) ELSE JsNull

\* JSON.parse(body): the value, or a SyntaxError.
JSONparse(body) ==
    IF body.syntax = "json" THEN [threw |-> FALSE, value |-> body.value]
    ELSE [threw |-> TRUE, value |-> JsonNull]

\* payload[name]: a member of an object, undefined of a string, a TypeError
\* of null (see jsonToken).
Member(payload, name) ==
    IF payload.kind = "object" THEN Lookup(payload.members, name) ELSE JsUndefined

\* A mutant of payloadToken: cfTurnstileResponse is read first.
payloadTokenCamelFirst(payload) ==
    Or(Or(Member(payload, TOKEN_FIELD_CAMEL), Member(payload, TOKEN_FIELD)), JsNull)

\* payload['cf-turnstile-response'] || payload.cfTurnstileResponse || null
payloadToken(payload) ==
    Or(Or(Member(payload, TOKEN_FIELD), Member(payload, TOKEN_FIELD_CAMEL)), JsNull)

\* A mutant of jsonCatch: the exception leaves getTurnstileToken.
jsonCatchRethrows == RejectedWith("SyntaxError")

\* catch (error) { console.error(...); return null; }
jsonCatch == Resolved(JsNull)

\* The application/json branch: try { ... } catch.
jsonToken(event) ==
    LET parsed == JSONparse(getTextBody(event))
    IN  IF parsed.threw \/ parsed.value = JsonNull THEN jsonCatch
        ELSE Resolved(payloadToken(parsed.value))

\* busboy({headers: {'content-type': contentType}}) throws when the content
\* type names no boundary.
NoBoundary == ""
Boundary(string) ==
    IF string = "multipart/form-data; boundary=b1" THEN "b1" ELSE NoBoundary

\* bb.end(body): the fields of a multipart form of that boundary, then
\* 'finish'; 'error' for anything else.
BusboyParses(boundary, body) == body.syntax = "multipart" /\ body.boundary = boundary

\* bb.on('field', (name, value) => { if (name === 'cf-turnstile-response') token = value; })
onField(token, name, value) == IF name = TOKEN_FIELD THEN Str(value) ELSE token

\* token after the 'field' events of the first n fields; initially null.
RECURSIVE TokenAfter(_, _)
TokenAfter(fields, n) ==
    IF n = 0 THEN JsNull
    ELSE onField(TokenAfter(fields, n - 1), fields[n][1], fields[n][2])

\* Where a call stands when it returns or first awaits: its position, what
\* its promise has settled to, its reads of event.body, and its parser.
Outcome(pc, result, reads, parser) ==
    [pc |-> pc, result |-> result, reads |-> reads, parser |-> parser]

\* The call after the header check, from the read of the content type on.
\* The content type is read from event.headers itself.
selectParser(event) ==
    IF ~event.hasHeaders THEN Outcome("done", RejectedWith("TypeError"), 0, "none")
    ELSE LET type == contentType(event).v
         IN  IF includes(type, "multipart/form-data")
             THEN IF Boundary(type) = NoBoundary
                  THEN Outcome("done", RejectedWith("Multipart: Boundary not found"),
                               0, "busboy")
                  ELSE Outcome("multipart", Pending, 1, "busboy")
             ELSE IF includes(type, "application/x-www-form-urlencoded")
             THEN Outcome("done",
                          Resolved(paramsGet(URLSearchParams(getTextBody(event)),
                                             TOKEN_FIELD)),
                          1, "URLSearchParams")
             ELSE IF includes(type, "application/json")
             THEN Outcome("done", jsonToken(event), 1, "JSON.parse")
             ELSE Outcome("done", Resolved(JsNull), 0, "none")

\* A mutant of getTurnstileToken: a JSON body is looked at before the header.
getTurnstileTokenJsonFirst(event) ==
    IF event.hasHeaders /\ includes(contentType(event).v, "application/json")
    THEN selectParser(event)
    ELSE IF Truthy(headerToken(event))
    THEN Outcome("done", Resolved(headerToken(event)), 0, "none")
    ELSE selectParser(event)

\* if (headerToken) return headerToken; otherwise by content type.
getTurnstileToken(event) ==
    IF Truthy(headerToken(event))
    THEN Outcome("done", Resolved(headerToken(event)), 0, "none")
    ELSE selectParser(event)

\* No call of getTurnstileToken came before this one.
NoEarlierCall == [made |-> FALSE]

ExtractorIdle ==
    /\ ePc = "idle"
    /\ eEvent = Event(FALSE, EmptyObject, NoEventBody, FALSE)
    /\ eResult = Pending
    /\ eBodyReads = 0
    /\ eParser = "none"
    /\ ePrev = NoEarlierCall

\* getTurnstileToken(event) runs up to its return or its first await.
Invoke(event) ==
    /\ eEvent' = event
    /\ ePc' = getTurnstileToken(event).pc
    /\ eResult' = getTurnstileToken(event).result
    /\ eBodyReads' = getTurnstileToken(event).reads
    /\ eParser' = getTurnstileToken(event).parser

\* A call of getTurnstileToken.
ExtractCall ==
    /\ ePc = "idle"
    /\ \E hasHeaders \in BOOLEAN, headers \in Headers,
          body \in EventBodies, isBase64Encoded \in BOOLEAN :
         LET event == Event(hasHeaders, headers, body, isBase64Encoded)
         IN  WellFormed(event) /\ Invoke(event)
    /\ UNCHANGED ePrev
    /\ UNCHANGED offExtractor

\* The request of a finished call, whose body was base64 with the flag set,
\* with the same content as an unencoded text body and the flag unset.
AsText(event) ==
    [event EXCEPT !.body = Text(event.body.doc), !.isBase64Encoded = FALSE]

\* A second call of getTurnstileToken, given the text twin of the first request.
ExtractCallAsText ==
    /\ ePc = "done"
    /\ ePrev = NoEarlierCall
    /\ eEvent.isBase64Encoded
    /\ eEvent.body.t = "string"
    /\ eEvent.body.enc = "base64"
    /\ ePrev' = [made |-> TRUE, event |-> eEvent, result |-> eResult]
    /\ Invoke(AsText(eEvent))
    /\ UNCHANGED offExtractor

\* busboy has emitted the 'field' events and 'finish': return token.
BusboyFinish ==
    /\ ePc = "multipart"
    /\ BusboyParses(Boundary(contentType(eEvent).v), getBodyBuffer(eEvent))
    /\ eResult' = Resolved(TokenAfter(getBodyBuffer(eEvent).fields,
                                      Len(getBodyBuffer(eEvent).fields)))
    /\ ePc' = "done"
    /\ UNCHANGED <<eEvent, eBodyReads, eParser, ePrev>>
    /\ UNCHANGED offExtractor

\* busboy has emitted 'error': the promise of parseMultipart rejects, and so
\* does the call.
BusboyError ==
    /\ ePc = "multipart"
    /\ ~BusboyParses(Boundary(contentType(eEvent).v), getBodyBuffer(eEvent))
    /\ eResult' = RejectedWith("Unexpected end of form")
    /\ ePc' = "done"
    /\ UNCHANGED <<eEvent, eBodyReads, eParser, ePrev>>
    /\ UNCHANGED offExtractor

(***************************************************************************)
(* The specifications.                                                     *)
(***************************************************************************)
Init == InitSession(BOOLEAN) /\ VerifierIdle /\ ExtractorIdle

Next ==
    \/ Setup
    \/ Teardown
    \/ BeforeUnload
    \/ ScriptLoads
    \/ WidgetInit
    \/ LoadEvent
    \/ FireCheckScript
    \/ FireScriptTimeout
    \/ FireLoadGrace
    \/ FireCheckWidget
    \/ FireInitTimeout
    \/ FireReset
    \/ Tick

Spec == Init /\ [][Next]_vars

\* The Verifier alone, beside a page on which no session is set up.
InitVerify == InitSession({FALSE}) /\ VerifierIdle /\ ExtractorIdle

NextVerify ==
    \/ VerifyCall
    \/ FetchRejects
    \/ FetchResolves
    \/ JsonSettles

SpecVerify == InitVerify /\ [][NextVerify]_vars

\* The Token Extractor alone.
InitExtract == InitSession({FALSE}) /\ VerifierIdle /\ ExtractorIdle

NextExtract ==
    \/ ExtractCall
    \/ ExtractCallAsText
    \/ BusboyFinish
    \/ BusboyError

SpecExtract == InitExtract /\ [][NextExtract]_vars

(***************************************************************************)
(* Claims about the Refresh Controller.                                    *)
(***************************************************************************)

\* C1: if teardown is called before any poll has read the widget identifier,
\* reset is never called for that session, whatever happens later.
C1_NoResetAfterEarlyTeardown ==
    tornDownPreActive => resetCalls = 0

\* C2: once the session is torn down (by the teardown function or by
\* beforeunload) no reset call is made at any later time.
C2_NoResetAfterTeardown ==
    [][isCleanedUp => resetCalls' = resetCalls]_vars

\* C3: teardown is idempotent: a call on a session already torn down leaves
\* the timer handles, the flag and the pending timers as they are and clears
\* no timer.
C3_TeardownIdempotent ==
    [][(cleanupCalls' # cleanupCalls /\ isCleanedUp)
         => UNCHANGED <<timers, turnstileResetInterval, checkWidgetInterval,
                        isCleanedUp, cleanupClears>>]_vars

\* The poll the handle checkWidgetInterval names was started before the last
\* teardown call: that call found a live handle on a session already torn down.
C3_Witness ==
    /\ cleanupCalls >= 2
    /\ isCleanedUp
    /\ \E t \in timers : /\ t.id = checkWidgetInterval
                         /\ t.kind = "checkWidget"
                         /\ pollStartedAt < lastCleanupAt
                         /\ pollStartedAt >= 0

\* C4: no reset before the identifier appears, the first reset after its
\* discovery, and from then on one reset per refreshInterval, with the
\* discovered identifier, while the session is not torn down.
C4_OneResetPerPeriod ==
    /\ resetCalls > 0 =>
         /\ idAppearedAt >= 0
         /\ discoveredAt >= idAppearedAt
         /\ lastFiring.at >= discoveredAt + refreshInterval
         /\ lastFiring.id = widgetIdAttr
    /\ (discoveredAt >= 0 /\ ~isCleanedUp) =>
         LET elapsed == now - discoveredAt
             k == elapsed \div refreshInterval
         IN  \/ resetCalls = k
             \/ /\ resetCalls = k - 1
                /\ elapsed % refreshInterval = 0
                /\ \E t \in timers : t.kind = "reset" /\ t.due = now

\* C5: when the identifier has not appeared within WIDGET_INIT_TIMEOUT of the
\* start of the identifier poll, reset is never called, also when the
\* identifier appears later.
C5_NoRefreshAfterInitTimeout ==
    ( /\ pollStartedAt >= 0
      /\ now > pollStartedAt + WIDGET_INIT_TIMEOUT
      /\ (idAppearedAt < 0 \/ idAppearedAt > pollStartedAt + WIDGET_INIT_TIMEOUT) )
    => resetCalls = 0

\* C6: a firing on which reset throws leaves the reset timer that fired
\* pending, due one refreshInterval later.
C6_ThrowKeepsTimer ==
    [][(resetCalls' = resetCalls + 1 /\ lastFiring'.resetThrew)
         => \E t \in timers' : /\ t.id = lastFiring'.timer
                               /\ t.kind = "reset"
                               /\ t.due = now + refreshInterval]_vars

\* Reset threw on a firing that was not the first, and the timer is still pending.
C6_Witness ==
    /\ resetCalls >= 3
    /\ lastFiring.resetThrew
    /\ \E t \in timers : t.id = lastFiring.timer

\* C7: on each firing onRefresh is invoked exactly when it is supplied and
\* reset returned, onError exactly when it is supplied and reset threw.
C7_CallbacksByOutcome ==
    lastFiring.at >= 0 =>
        /\ lastFiring.onRefreshCalled = (onRefresh /\ ~lastFiring.resetThrew)
        /\ lastFiring.onErrorCalled = (onError /\ lastFiring.resetThrew)

\* C22: in every reachable state at most one recurring reset timer and at
\* most one identifier poll timer are pending for the session.
C22_AtMostOneTimerOfEach ==
    /\ Cardinality({t \in timers : t.kind = "reset"}) <= 1
    /\ Cardinality({t \in timers : t.kind = "checkWidget"}) <= 1

\* C23: in no reachable state are an identifier poll timer and a reset timer
\* both pending.
C23_PollStopsBeforeReset ==
    ~( /\ \E t \in timers : t.kind = "checkWidget"
       /\ \E t \in timers : t.kind = "reset" )

\* C24: when the identifier never appears and the teardown is never called,
\* the timeouts clear every poll the session started: a poll is pending only
\* while a timeout is still to fire, so once the last timeout has fired the
\* session has no timer left.
C24_TimeoutsClearEveryPoll ==
    ( /\ started
      /\ cleanupCalls = 0
      /\ widgetIdAttr = NoId
      /\ \A t \in timers : t.period # 0 )
    => timers = {}

\* C25: a session set up with an absent widget starts no timer at all, never
\* calls reset, and its teardown clears nothing, whether or not the rendering
\* API is available at setup.
C25_NoWidgetNoTimers ==
    (started /\ ~widget) =>
        /\ timers = {}
        /\ resetCalls = 0
        /\ cleanupClears = 0

\* C26: with the rendering API absent at setup, the poll for the script
\* checks every 100 ms and no later than 5000 ms after setup.  A check that
\* sees the API clears the poll and starts identifier discovery, a check
\* that does not re-arms it 100 ms later, and past 5000 ms no poll is
\* pending, so an API that appears later is not picked up by it.
C26_ScriptPollBounded ==
    [][LET Polls(ts) == {t \in ts : t.kind = "checkScript"}
           Timeouts(ts) == {t \in ts : t.kind = "scriptTimeout"}
           checked == \E t \in Polls(timers) :
                          /\ t.due <= now
                          /\ t \notin timers'
                          /\ Timeouts(timers') = Timeouts(timers)
       IN  /\ checked => /\ now % SCRIPT_CHECK_INTERVAL = 0
                         /\ now > 0
                         /\ now <= SCRIPT_CHECK_TIMEOUT
           /\ (checked /\ turnstile) =>
                  /\ Polls(timers') = {}
                  /\ widget => setupResetRuns' = setupResetRuns + 1
           /\ (checked /\ ~turnstile) =>
                  /\ \E t \in Polls(timers') : t.due = now + SCRIPT_CHECK_INTERVAL
                  /\ setupResetRuns' = setupResetRuns
           /\ \A t \in Polls(timers') : /\ now' <= SCRIPT_CHECK_TIMEOUT
                                          /\ t.due <= now' + SCRIPT_CHECK_INTERVAL
                                          /\ Timeouts(timers') # {}
           /\ Cardinality(Polls(timers')) <= 1
      ]_vars

\* The rendering API appeared later than 5000 ms after setup and no poll
\* picked it up: identifier discovery has not started and no timer is pending.
C26_Witness ==
    /\ started
    /\ widget
    /\ turnstile
    /\ now > SCRIPT_CHECK_TIMEOUT + 2 * SCRIPT_CHECK_INTERVAL
    /\ setupResetRuns = 0
    /\ timers = {}

\* C27: identifier discovery (setupReset past its guard) is started at most
\* once per session.
C27_DiscoveryStartedOnce ==
    setupResetRuns <= 1

(***************************************************************************)
(* Claims about the Verifier.                                              *)
(***************************************************************************)

\* C8: the preconditions are checked in order: a falsy secretKey gives the
\* "not configured" result whatever the token is, otherwise a falsy token
\* gives the "token is missing" result; neither case issues a request.
C8_ShortCircuitsInOrder ==
    vPc = "done" =>
        /\ ~Truthy(vSecretKey) => (vResult = NotConfigured /\ vRequests = <<>>)
        /\ (Truthy(vSecretKey) /\ ~Truthy(vToken)) =>
               (vResult = TokenMissing /\ vRequests = <<>>)

\* A call with a falsy secretKey and a falsy token has returned.
C8_Witness ==
    /\ vPc = "done"
    /\ ~Truthy(vSecretKey)
    /\ ~Truthy(vToken)
    /\ vResult = NotConfigured

\* C9: a call with a truthy token and a truthy secretKey issues exactly one
\* request, to the siteverify endpoint, whatever the outcome of that request.
C9_ExactlyOneRequest ==
    (vCalls > 0 /\ Truthy(vToken) /\ Truthy(vSecretKey)) =>
        /\ Len(vRequests) = 1
        /\ vRequests[1].url = SITEVERIFY_URL
        /\ vRequests[1].method = "POST"

\* A call whose request was rejected has returned, with its one request.
C9_Witness ==
    /\ vPc = "done"
    /\ vResponse = Rejected
    /\ vResult = VerificationError
    /\ Len(vRequests) = 1

\* C10: the request body holds secret=<secretKey> and response=<token>, and a
\* remoteip field exactly when a remoteIp was given (with its value); omitted,
\* null or empty, the body has no remoteip key.
C10_RequestBody ==
    \A i \in 1..Len(vRequests) :
        LET body == vRequests[i].body
        IN  /\ Has(body, "secret") /\ Get(body, "secret") = vSecretKey.v
            /\ Has(body, "response") /\ Get(body, "response") = vToken.v
            /\ Has(body, "remoteip") <=> Truthy(vRemoteIp)
            /\ Truthy(vRemoteIp) => Get(body, "remoteip") = vRemoteIp.v
            /\ Len(body) = (IF Truthy(vRemoteIp) THEN 3 ELSE 2)

\* A request went out for a call given the empty string as remoteIp.
C10_Witness ==
    /\ Len(vRequests) = 1
    /\ vRemoteIp = Str("")
    /\ ~Has(vRequests[1].body, "remoteip")

\* C11: when the remote service says no (a non-success status, or a parsed
\* body whose success is false) the call resolves to exactly the "verification
\* failed" result, the same whatever 'error-codes' holds (absent, empty, one
\* code, several codes), and the result never carries those codes.
C11_RemoteNoIsGenericFailure ==
    ( /\ vPc = "done"
      /\ vResponse.kind = "response"
      /\ \/ ~ResponseOk(vResponse.status)
         \/ /\ vResponse.body.kind = "object"
            /\ vResponse.body.hasSuccess
            /\ ~vResponse.body.success )
    => /\ vResult = VerificationFailed
       /\ ~vRejected

\* A call has returned whose response body had success false and two error codes.
C11_Witness ==
    /\ vPc = "done"
    /\ vResponse.kind = "response"
    /\ vResponse.body.kind = "object"
    /\ vResponse.body.hasCodes
    /\ Len(vResponse.body.codes) = 2
    /\ vResult = VerificationFailed

\* C12: a success status with a body whose success is true resolves to
\* {success: true}, a result with no error key.
C12_VerifiedHasNoError ==
    ( /\ vPc = "done"
      /\ vResponse.kind = "response"
      /\ ResponseOk(vResponse.status)
      /\ vResponse.body.kind = "object"
      /\ vResponse.body.hasSuccess
      /\ vResponse.body.success )
    => /\ vResult = Verified
       /\ DOMAIN vResult = {"success"}
       /\ ~vRejected

\* A call has returned {success: true}.
C12_Witness ==
    /\ vPc = "done"
    /\ vResponse.kind = "response"
    /\ vResponse.status = 200
    /\ vResponse.body.kind = "object"
    /\ vResponse.body.success
    /\ vResult = Verified

\* C13: an exception while the request is issued or while the response is
\* parsed (fetch rejects, the body is not JSON) does not leave the call: the
\* call resolves to the "verification error" result.
C13_ExceptionsAreCaught ==
    ( /\ vPc = "done"
      /\ \/ vResponse = Rejected
         \/ /\ vResponse.kind = "response"
            /\ vResponse.body.kind \in {"malformed", "null"} )
    => /\ vResult = VerificationError
       /\ ~vRejected

\* A call has returned whose response had a success status and a body that
\* is not JSON.
C13_Witness ==
    /\ vPc = "done"
    /\ vResponse.kind = "response"
    /\ vResponse.status = 200
    /\ vResponse.body.kind = "malformed"
    /\ vResult = VerificationError
    /\ ~vRejected

\* C14, as the claim states it: of two calls with a truthy token and secret
\* key, one refused by the remote service and the other failed in transport
\* or parsing, the results are identical.
C14_FailuresIndistinguishable ==
    LET Truthies(c) == Truthy(c.token) /\ Truthy(c.secretKey)
        RemoteNo(c) == /\ c.response.kind = "response"
                       /\ \/ ~ResponseOk(c.response.status)
                          \/ /\ c.response.body.kind = "object"
                             /\ ~(c.response.body.hasSuccess /\ c.response.body.success)
        Failure(c) == \/ c.response = Rejected
                      \/ /\ c.response.kind = "response"
                         /\ c.response.body.kind \in {"malformed", "null"}
    IN  ( /\ vPc = "done"
          /\ Truthies(CallRecord) /\ Truthies(vPrev)
          /\ \/ RemoteNo(vPrev) /\ Failure(CallRecord)
             \/ Failure(vPrev) /\ RemoteNo(CallRecord) )
        => CallRecord.result = vPrev.result

\* C14, amended: there are two generic results.  Two calls refused by the
\* remote service (whatever the status and the error codes) have the one
\* result, two calls failed in transport or parsing (whatever the exception)
\* have the other, and a refused call and a failed call differ in the error
\* message only.
C14_FailuresByClass ==
    LET Truthies(c) == Truthy(c.token) /\ Truthy(c.secretKey)
        RemoteNo(c) == /\ c.response.kind = "response"
                       /\ \/ ~ResponseOk(c.response.status)
                          \/ /\ c.response.body.kind = "object"
                             /\ ~(c.response.body.hasSuccess /\ c.response.body.success)
        Failure(c) == \/ c.response = Rejected
                      \/ /\ c.response.kind = "response"
                         /\ c.response.body.kind \in {"malformed", "null"}
    IN  (vPc = "done" /\ Truthies(CallRecord) /\ Truthies(vPrev)) =>
            /\ (RemoteNo(vPrev) /\ RemoteNo(CallRecord)) =>
                   (CallRecord.result = vPrev.result /\ vResult = VerificationFailed)
            /\ (Failure(vPrev) /\ Failure(CallRecord)) =>
                   (CallRecord.result = vPrev.result /\ vResult = VerificationError)
            /\ (RemoteNo(vPrev) /\ Failure(CallRecord)) =>
                   (vPrev.result = VerificationFailed /\ vResult = VerificationError)
            /\ (Failure(vPrev) /\ RemoteNo(CallRecord)) =>
                   (vPrev.result = VerificationError /\ vResult = VerificationFailed)

\* Two calls were refused by the remote service, the first by its status, the
\* second by a body with error codes, and a refused call preceded a failed one.
C14_Witness ==
    /\ vPc = "done"
    /\ vCalls = 2
    /\ vPrev.response.kind = "response"
    /\ vPrev.response.status = 500
    /\ vResponse.kind = "response"
    /\ vResponse.status = 200
    /\ vResponse.body.kind = "object"
    /\ vResponse.body.hasCodes
    /\ vResult = vPrev.result

\* C28: a call never rejects.  Whatever the token, the secret key, the remote
\* ip and the behaviour of the remote call are, the call completes with a
\* result that has a success key, and an error key exactly when success is
\* false, the error being one of the four messages of the contract.
C28_AlwaysAResult ==
    /\ ~vRejected
    /\ vPc = "done" =>
          /\ "success" \in DOMAIN vResult
          /\ ("error" \in DOMAIN vResult) <=> ~vResult.success
          /\ DOMAIN vResult \subseteq {"success", "error"}
          /\ ~vResult.success =>
                 vResult.error \in {NotConfigured.error, TokenMissing.error,
                                    VerificationFailed.error, VerificationError.error}

\* A call has returned whose response had a success status and a body with
\* no success field.
C28_Witness ==
    /\ vPc = "done"
    /\ vResponse.kind = "response"
    /\ vResponse.status = 200
    /\ vResponse.body.kind = "object"
    /\ ~vResponse.body.hasSuccess
    /\ vResult = VerificationFailed

(***************************************************************************)
(* Claims about the Token Extractor.                                       *)
(***************************************************************************)

\* C15: a request with a token in the x-turnstile-token header resolves to
\* that token, whatever its content type, body and base64 flag are: the body
\* is not read, no parser runs and nothing is rejected.
C15_HeaderTokenWins ==
    ( /\ ePc # "idle"
      /\ eEvent.hasHeaders
      /\ "x-turnstile-token" \in DOMAIN eEvent.headers
      /\ eEvent.headers["x-turnstile-token"] # "" )
    => /\ ePc = "done"
       /\ eResult = Resolved(Str(eEvent.headers["x-turnstile-token"]))
       /\ eBodyReads = 0
       /\ eParser = "none"

\* A request with a header token, the JSON content type and a body that is
\* not JSON has resolved to the header token.
C15_Witness ==
    /\ ePc = "done"
    /\ eEvent.hasHeaders
    /\ DOMAIN eEvent.headers = {"x-turnstile-token", "content-type"}
    /\ eEvent.headers["content-type"] = "application/json"
    /\ eEvent.body = Text(Garbage)
    /\ eResult = Resolved(Str("hdr-1"))

\* C16: a token header is matched whatever the letter-casing of its name is:
\* a request with a non-empty value under x-turnstile-token,
\* X-Turnstile-Token or X-TURNSTILE-TOKEN resolves to a header value.
C16_AnyCasingMatched ==
    LET names == {"x-turnstile-token", "X-Turnstile-Token", "X-TURNSTILE-TOKEN"}
        given == {n \in names \cap DOMAIN eEvent.headers : eEvent.headers[n] # ""}
    IN  (ePc = "done" /\ eEvent.hasHeaders /\ given # {})
        => \E n \in given : eResult = Resolved(Str(eEvent.headers[n]))

\* C17: a request with no headers object at all completes without a
\* rejection and resolves to null.
C17_NoHeadersTolerated ==
    (ePc = "done" /\ ~eEvent.hasHeaders) => eResult = Resolved(JsNull)

\* C18: with no token header, the content type selects the parser, and the
\* call resolves to the value submitted under cf-turnstile-response in a
\* multipart, URL-encoded or JSON body (null when there is no such field);
\* with any other content type, or none, it resolves to null and the body is
\* not read.
C18_ParserByContentType ==
    LET headers == IF eEvent.hasHeaders THEN eEvent.headers ELSE EmptyObject
        tokenNames == {"x-turnstile-token", "X-Turnstile-Token", "X-TURNSTILE-TOKEN"}
        typeNames == {"content-type", "Content-Type", "CONTENT-TYPE"} \cap DOMAIN headers
        types == {headers[n] : n \in typeNames}
        body == getTextBody(eEvent)
        Submitted(fields) == {fields[i][2] : i \in {k \in 1..Len(fields) :
                                                       fields[k][1] = TOKEN_FIELD}}
        ValueOf(fields) ==
            IF Submitted(fields) = {} THEN eResult = Resolved(JsNull)
            ELSE \E v \in Submitted(fields) : eResult = Resolved(Str(v))
    IN  (ePc = "done" /\ tokenNames \cap DOMAIN headers = {} /\ Cardinality(types) <= 1)
        => /\ ( /\ types = {"multipart/form-data; boundary=b1"}
                /\ body.syntax = "multipart"
                /\ body.boundary = "b1" ) => ValueOf(body.fields)
           /\ ( /\ types = {"application/x-www-form-urlencoded"}
                /\ body.syntax = "form" ) => ValueOf(body.fields)
           /\ ( /\ types \subseteq {"application/json", "application/json; charset=utf-8"}
                /\ types # {}
                /\ body.syntax = "json"
                /\ body.value.kind = "object" )
              => eResult = Resolved(Lookup(body.value.members, TOKEN_FIELD))
                   \/ ( /\ TOKEN_FIELD \notin DOMAIN body.value.members
                        /\ eResult = Resolved(JsNull) )
           /\ (types \subseteq {"text/plain"})
              => (eResult = Resolved(JsNull) /\ eBodyReads = 0)

\* C19, as the claim states it: in a JSON body, when the key
\* cf-turnstile-response is present its value is returned, also when
\* cfTurnstileResponse is present too; cfTurnstileResponse is used only when
\* cf-turnstile-response is absent; null is returned only when both are absent.
C19_JsonKeyPriority ==
    LET body == getTextBody(eEvent)
        members == body.value.members
    IN  ( /\ ePc = "done"
          /\ eEvent.hasHeaders
          /\ ~Truthy(headerToken(eEvent))
          /\ includes(contentType(eEvent).v, "application/json")
          /\ body.syntax = "json"
          /\ body.value.kind = "object" )
        => /\ TOKEN_FIELD \in DOMAIN members
                => eResult = Resolved(Str(members[TOKEN_FIELD]))
           /\ (TOKEN_FIELD \notin DOMAIN members /\ TOKEN_FIELD_CAMEL \in DOMAIN members)
                => eResult = Resolved(Str(members[TOKEN_FIELD_CAMEL]))
           /\ eResult = Resolved(JsNull)
                => {TOKEN_FIELD, TOKEN_FIELD_CAMEL} \cap DOMAIN members = {}

\* C19, amended: a key counts when it is present with a non-empty value.  The
\* value of cf-turnstile-response is returned whenever it counts, also when
\* cfTurnstileResponse is present too; cfTurnstileResponse is used when
\* cf-turnstile-response does not count and it does; null is returned exactly
\* when neither counts.
C19_JsonNonEmptyKeyPriority ==
    LET body == getTextBody(eEvent)
        members == body.value.members
        Counts(name) == name \in DOMAIN members /\ members[name] # ""
    IN  ( /\ ePc = "done"
          /\ eEvent.hasHeaders
          /\ ~Truthy(headerToken(eEvent))
          /\ includes(contentType(eEvent).v, "application/json")
          /\ body.syntax = "json"
          /\ body.value.kind = "object" )
        => /\ Counts(TOKEN_FIELD) => eResult = Resolved(Str(members[TOKEN_FIELD]))
           /\ (~Counts(TOKEN_FIELD) /\ Counts(TOKEN_FIELD_CAMEL))
                => eResult = Resolved(Str(members[TOKEN_FIELD_CAMEL]))
           /\ eResult = Resolved(JsNull)
                <=> (~Counts(TOKEN_FIELD) /\ ~Counts(TOKEN_FIELD_CAMEL))

\* A JSON body holding both keys with different values has resolved to the
\* value of cf-turnstile-response.
C19_Witness ==
    /\ ePc = "done"
    /\ eParser = "JSON.parse"
    /\ getTextBody(eEvent).syntax = "json"
    /\ getTextBody(eEvent).value.kind = "object"
    /\ {TOKEN_FIELD, TOKEN_FIELD_CAMEL} \subseteq DOMAIN getTextBody(eEvent).value.members
    /\ getTextBody(eEvent).value.members[TOKEN_FIELD] = "tok-a"
    /\ getTextBody(eEvent).value.members[TOKEN_FIELD_CAMEL] = "tok-b"
    /\ eResult = Resolved(Str("tok-a"))

\* C20: when the JSON parser was selected and the body does not parse as JSON
\* (an empty or missing body included) the call resolves to null; when the
\* multipart parser was selected and the body does not parse, the call
\* rejects with the parser's error.
C20_ParseFailures ==
    LET selected == eEvent.hasHeaders /\ ~Truthy(headerToken(eEvent))
        type == contentType(eEvent).v
    IN  /\ ( /\ ePc = "done"
             /\ selected
             /\ includes(type, "application/json")
             /\ getTextBody(eEvent).syntax # "json" )
           => eResult = Resolved(JsNull)
        /\ ( /\ ePc = "done"
             /\ selected
             /\ includes(type, "multipart/form-data")
             /\ ~BusboyParses(Boundary(type), getBodyBuffer(eEvent)) )
           => /\ eResult.kind = "rejected"
              /\ eResult.error \in {"Multipart: Boundary not found",
                                     "Unexpected end of form"}

\* A request of the JSON content type with no body has resolved to null.
C20_Witness ==
    /\ ePc = "done"
    /\ eParser = "JSON.parse"
    /\ eEvent.body = NoEventBody
    /\ eResult = Resolved(JsNull)

\* C21: a request whose body is the base64 encoding of a content, with the
\* base64 flag set, settles to the same result as the request that carries
\* the same content as a text body with the flag unset, whatever the content
\* type and the content are.
C21_Base64SameAsText ==
    (ePc = "done" /\ ePrev.made) => eResult = ePrev.result

\* A URL-encoded form sent as base64 and then as text has twice resolved to
\* the token of the form.
C21_Witness ==
    /\ ePc = "done"
    /\ ePrev.made
    /\ eParser = "URLSearchParams"
    /\ ePrev.event.body.enc = "base64"
    /\ eEvent.body.enc = "utf8"
    /\ ePrev.result = Resolved(Str("tok-a"))
    /\ eResult = Resolved(Str("tok-a"))

\* C29: whenever the call resolves, its value is null or a non-empty string:
\* an empty token header and an empty cf-turnstile-response field of a JSON,
\* URL-encoded or multipart body give null, never the empty string.
C29_NullOrNonEmpty ==
    (ePc = "done" /\ eResult.kind = "resolved") =>
        (eResult.value = JsNull \/ Truthy(eResult.value))

====
